---- MODULE Spec2Model ----
(***************************************************************************)
(* Profile export pipeline of src/services/patch.py:                       *)
(* PyroscopePprofHTTPExporter.export drives _upload_once through the       *)
(* tenacity.Retrying object configured in __init__ (random exponential     *)
(* wait, stop_after_delay, retry on HTTPException/OSError/IOError,         *)
(* retry_error_cls=UploadFailed).                                          *)
(*                                                                         *)
(* Time is counted in ticks of a quarter of a second, so the 0.5 s wait    *)
(* multiplier is 2 ticks; max_retry_delay is a constructor argument and    *)
(* ranges over 0 .. MaxBudget ticks.  Attempt durations and backoff draws  *)
(* are sampled at whole multiples of the multiplier.                       *)
(***************************************************************************)
EXTENDS Integers, Sequences, FiniteSets, TLC

\* ---------------------------------------------------------------- bounds
\* most HTTP attempts explored in one export call
MaxAttempts == 3
\* longest duration of one HTTP attempt, in steps of Multiplier ticks
MaxAttemptTime == 1
\* largest retry budget explored, in ticks
MaxBudget == 4

\* bytes os.urandom is asked for, scaled down from the 16 of the source
UrandomBytes == 1
\* longest run of free bytes in a payload handed to the packager
MaxPayloadLen == 1

\* ------------------------------------------------------------- constants
\* wait_random_exponential(multiplier=0.5): 0.5 s = 2 ticks
Multiplier == 2

\* tokens an exporter may be configured with; "" is "TOKEN not set"
Tokens == {"", "tok123"}

\* retry budgets an exporter may be constructed with
Budgets == 0 .. MaxBudget

\* statuses a server may answer with
Statuses == {100, 200, 299, 302, 400, 401, 404, 500, 503, 600}

\* exceptions client.request / client.getresponse may raise
TransportErrors == {"HTTPException", "OSError"}

\* the durations one HTTP attempt may take, in ticks
AttemptTimes == {Multiplier * k : k \in 0 .. MaxAttemptTime}

\* what one HTTP attempt can meet: a response with a status, or a transport
\* exception raised while sending or reading
Responses ==
  [kind : {"response"}, status : Statuses]
    \cup [kind : TransportErrors, status : {0}]

NoException == [type |-> "None", reason |-> "", status |-> 0]

NoOutcome == [attempt_number |-> 0, failed |-> FALSE, exception |-> NoException]

NotRaised == [type |-> "None", inner |-> NoException, attempt_number |-> 0]

\* _upload_once with the reasons of 400 and 404 exchanged
UploadOnce_SwappedReasons(resp) ==
  IF resp.kind # "response"
    THEN [type |-> resp.kind, reason |-> "", status |-> 0]
  ELSE IF 200 <= resp.status /\ resp.status < 300
    THEN NoException
  ELSE IF 500 <= resp.status
    THEN [type |-> "TryAgain", reason |-> "", status |-> resp.status]
  ELSE IF resp.status = 404
    THEN [type |-> "ExportError",
          reason |-> "Server returned 400, check your API key.",
          status |-> resp.status]
  ELSE IF resp.status = 400
    THEN [type |-> "ExportError",
          reason |-> "Server returned 404, check your endpoint path.",
          status |-> resp.status]
  ELSE [type |-> "ExportError",
        reason |-> "POST to url, but got status",
        status |-> resp.status]

\* _upload_once raising ExportError instead of tenacity.TryAgain on 5xx
UploadOnce_NoTryAgain(resp) ==
  IF resp.kind # "response"
    THEN [type |-> resp.kind, reason |-> "", status |-> 0]
  ELSE IF 200 <= resp.status /\ resp.status < 300
    THEN NoException
  ELSE IF resp.status = 400
    THEN [type |-> "ExportError",
          reason |-> "Server returned 400, check your API key.",
          status |-> resp.status]
  ELSE IF resp.status = 404
    THEN [type |-> "ExportError",
          reason |-> "Server returned 404, check your endpoint path.",
          status |-> resp.status]
  ELSE [type |-> "ExportError",
        reason |-> "POST to url, but got status",
        status |-> resp.status]

\* ------------------------------------------------------------ _upload_once
\* The exception _upload_once ends with for one response (NoException when
\* it returns).
UploadOnce(resp) ==
  IF resp.kind # "response"
    THEN [type |-> resp.kind, reason |-> "", status |-> 0]
  ELSE IF 200 <= resp.status /\ resp.status < 300
    THEN NoException
  ELSE IF 500 <= resp.status
    THEN [type |-> "TryAgain", reason |-> "", status |-> resp.status]
  ELSE IF resp.status = 400
    THEN [type |-> "ExportError",
          reason |-> "Server returned 400, check your API key.",
          status |-> resp.status]
  ELSE IF resp.status = 404
    THEN [type |-> "ExportError",
          reason |-> "Server returned 404, check your endpoint path.",
          status |-> resp.status]
  ELSE [type |-> "ExportError",
        reason |-> "POST to url, but got status",
        status |-> resp.status]

\* retry_if_exception_type() left at its default, Exception
RetryIfExceptionType_AnyException(exception) ==
  exception.type \in {"HTTPException", "OSError", "IOError", "ExportError"}

\* ------------------------------------------------------------ retry policy
\* retry=tenacity.retry_if_exception_type((HTTPException, OSError, IOError))
RetryIfExceptionType(exception) ==
  exception.type \in {"HTTPException", "OSError", "IOError"}

\* Retrying.iter: an explicit TryAgain or the retry predicate asks for
\* another attempt
WantsRetry(fut) ==
  /\ fut.failed
  /\ \/ fut.exception.type = "TryAgain"
     \/ RetryIfExceptionType(fut.exception)

\* no stop condition given to Retrying: tenacity's default never stops
StopAfterDelay_Never(seconds_since_start, max_delay) == FALSE

\* stop=tenacity.stop_after_delay(self.max_retry_delay), evaluated on
\* seconds_since_start = outcome_timestamp - start_time
StopAfterDelay(seconds_since_start, max_delay) ==
  seconds_since_start >= max_delay

RECURSIVE Pow2(_)
Pow2(n) == IF n <= 0 THEN 1 ELSE 2 * Pow2(n - 1)

\* wait_random_exponential(multiplier=0.5): uniform in
\* [0, multiplier * 2^(attempt_number - 1)]
WaitHigh(attempt_number_) == Multiplier * Pow2(attempt_number_ - 1)

\* the draws of random.uniform(0, high), sampled every Multiplier ticks
WaitRandomExponential(attempt_number_) ==
  {Multiplier * k : k \in 0 .. (WaitHigh(attempt_number_) \div Multiplier)}

\* a retry error that does not carry the last attempt
RetryErrorCls_Generic(fut) ==
  [type |-> "UploadFailed", inner |-> NoException, attempt_number |-> 0]

\* retry_error_cls=UploadFailed: the error raised when the policy stops
\* wraps the outcome of the attempt that was just made
RetryErrorCls(fut) ==
  [type |-> "UploadFailed", inner |-> fut.exception,
   attempt_number |-> fut.attempt_number]

\* the failure of the attempt caught and dropped instead of propagated
Reraise_Swallowed(fut) == NotRaised

\* fut.result() of a failed outcome re-raises the attempt's own exception
Reraise(fut) ==
  [type |-> fut.exception.type, inner |-> fut.exception,
   attempt_number |-> fut.attempt_number]

\* ------------------------------------------------------------ byte strings
\* Byte strings and texts are strings, one character for a byte.
RECURSIVE Concat(_)
Concat(strs) == IF strs = << >> THEN "" ELSE Head(strs) \o Concat(Tail(strs))

CRLF == "\r\n"

HexDigits ==
  <<"0", "1", "2", "3", "4", "5", "6", "7", "8", "9", "a", "b", "c", "d", "e", "f">>

\* binascii.hexlify: two lower-case hexadecimal digits for every byte
Hexlify(bytes) ==
  Concat([i \in 1 .. Len(bytes) |->
            HexDigits[(bytes[i] \div 16) + 1] \o HexDigits[(bytes[i] % 16) + 1]])

\* gzip.GzipFile(mode="wb") written once and closed: header, the data,
\* trailer
Gzip(data) == "<gzip:" \o data \o ">"

\* SAMPLE_TYPE_CONFIG_JSON, by its keys
SampleTypeConfigJson == "{cpu-time,wall-time,alloc-space,heap-space}"

\* ------------------------------------------------- _encode_multipart_formdata
\* one field of the body: boundary line, the two header lines, an empty
\* line, the payload, CRLF
Part(boundary, field_name, field_data) ==
  "--" \o boundary \o CRLF
    \o "Content-Disposition: form-data; name=\"" \o field_name
    \o "\"; filename=\"" \o field_name \o "\"" \o CRLF
    \o "Content-Type: application/octet-stream" \o CRLF \o CRLF
    \o field_data \o CRLF

\* the packager ending the body with a CRLF after the closing boundary
EncodeMultipartFormdata_TrailingCRLF(data, random) ==
  LET boundary == Hexlify(random) IN
  [content_type |-> "multipart/form-data; boundary=" \o boundary,
   body |-> Concat([i \in 1 .. Len(data) |->
                      Part(boundary, data[i][1], data[i][2])])
              \o "--" \o boundary \o "--" \o CRLF]

\* the packager leaving out the CRLF that ends a payload
EncodeMultipartFormdata_NoPayloadCRLF(data, random) ==
  LET boundary == Hexlify(random) IN
  [content_type |-> "multipart/form-data; boundary=" \o boundary,
   body |-> Concat([i \in 1 .. Len(data) |->
                      "--" \o boundary \o CRLF
                        \o "Content-Disposition: form-data; name=\"" \o data[i][1]
                        \o "\"; filename=\"" \o data[i][1] \o "\"" \o CRLF
                        \o "Content-Type: application/octet-stream"
                        \o CRLF \o CRLF \o data[i][2]])
              \o "--" \o boundary \o "--"]

\* _encode_multipart_formdata(data): data is the ordered mapping, a sequence
\* of <<field name, payload>>; random is what os.urandom(16) returns
EncodeMultipartFormdata(data, random) ==
  LET boundary == Hexlify(random) IN
  [content_type |-> "multipart/form-data; boundary=" \o boundary,
   body |-> Concat([i \in 1 .. Len(data) |->
                      Part(boundary, data[i][1], data[i][2])])
              \o "--" \o boundary \o "--"]

\* ---------------------------------------------------------------- inputs
ServiceNames == {"helloworld", "hello world", "a&b=c"}

Endpoints == {"http://pyroscope:4040/ingest", "http://bk/pyroscope"}

\* serialized profiles the serialization step may hand over
Profiles == {"", "pprof"}

\* recording intervals <<start_time_ns, end_time_ns>>
Intervals == {<<1000, 2000>>, <<2000, 3000>>}

\* what os.urandom may return: UrandomBytes bytes, each 0x00 or 0xaa
RandomBytes == {0, 170}

Randoms == [1 .. UrandomBytes -> RandomBytes]

\* ----------------------------------------------------------------- export
\* data = {b"profile": gzip of the profile, b"sample_type_config": the JSON}
ExportData(prof) ==
  << <<"profile", Gzip(prof)>>, <<"sample_type_config", SampleTypeConfigJson>> >>

\* params with the two times exchanged
ExportParams_Swapped(service, start_ns, end_ns) ==
  << <<"name", service>>, <<"spyName", "ddtrace">>,
     <<"from", ToString(end_ns)>>, <<"until", ToString(start_ns)>> >>

\* params = {"name": ..., "spyName": "ddtrace", "from": ..., "until": ...},
\* a value being its str()
ExportParams(service, start_ns, end_ns) ==
  << <<"name", service>>, <<"spyName", "ddtrace">>,
     <<"from", ToString(start_ns)>>, <<"until", ToString(end_ns)>> >>

\* headers = {"Content-Type": content_type, "Authorization": f"Bearer {token}"}
BuildHeaders(content_type, tok) ==
  [h \in {"Content-Type", "Authorization"} |->
     IF h = "Content-Type" THEN content_type
     ELSE "Bearer " \o tok]

\* export, lines 114-138: compress, package, and build what is handed to
\* self._retry_upload
PrepareRequest(prof, random, tok, service, itv) ==
  LET multipart == EncodeMultipartFormdata(ExportData(prof), random) IN
  [body |-> multipart.body,
   headers |-> BuildHeaders(multipart.content_type, tok),
   params |-> ExportParams(service, itv[1], itv[2])]

\* PrepareRequest, worked out once for every input of the model (@@ makes
\* the table an explicit function)
PreparedRequests ==
  [prof \in Profiles, random \in Randoms, tok \in Tokens,
   service \in ServiceNames, itv \in Intervals |->
     PrepareRequest(prof, random, tok, service, itv)] @@ << >>

\* urllib.parse.quote_plus on one character: a space becomes "+", the
\* reserved characters are percent-encoded, the others stay
QuotePlusChar(c) ==
  IF c = " " THEN "+"
  ELSE IF c = "&" THEN "%26"
  ELSE IF c = "=" THEN "%3D"
  ELSE IF c = "+" THEN "%2B"
  ELSE IF c = "%" THEN "%25"
  ELSE IF c = "?" THEN "%3F"
  ELSE c

QuotePlus(str) ==
  Concat([i \in 1 .. Len(str) |-> QuotePlusChar(SubSeq(str, i, i))])

\* urllib.parse.urlencode(params): key=value pairs in the order of the
\* mapping, joined by "&"
UrlEncode(params) ==
  Concat([i \in 1 .. Len(params) |->
            (IF i = 1 THEN "" ELSE "&")
              \o QuotePlus(params[i][1]) \o "=" \o QuotePlus(params[i][2])])

\* _assemble_url: f"{self.endpoint}?{urllib.parse.urlencode(params)}"
AssembleUrl(ep, params) == ep \o "?" \o UrlEncode(params)

\* the params export may build
ParamsOfCalls ==
  {ExportParams(service, itv[1], itv[2]) :
     service \in ServiceNames, itv \in Intervals}

\* AssembleUrl, worked out once for every endpoint and params of the model
AssembledUrls ==
  [ep \in Endpoints, params \in ParamsOfCalls |-> AssembleUrl(ep, params)]
    @@ << >>

\* agent.get_connection(self.endpoint): a connection of its own for the
\* attempt, numbered after the n connections the call opened before
GetConnection(n) == n + 1

\* the upload packaging the data again on every attempt, with a boundary of
\* its own
UploadRequest_Repackaged(ep, body, hdrs, params, n) ==
  LET again == EncodeMultipartFormdata(<< >>, <<n>>) IN
  [method |-> "POST", url |-> AssembledUrls[ep, params],
   body |-> again.body,
   headers |-> [hdrs EXCEPT !["Content-Type"] = again.content_type],
   conn |-> GetConnection(n)]

\* _upload_once(body, headers, params), lines 172-175: what one attempt
\* puts on the wire, and on which connection
UploadRequest(ep, body, hdrs, params, n) ==
  [method |-> "POST", url |-> AssembledUrls[ep, params], body |-> body,
   headers |-> hdrs, conn |-> GetConnection(n)]

\* export returning the compressed bytes in place of the profile
ExportReturn_Compressed(prof, libraries) == <<Gzip(prof), libraries>>

\* return profile, libs
ExportReturn(prof, libraries) == <<prof, libraries>>

\* field names handed to the packager: export's own two, and one holding a
\* double quote
FieldNames == {"profile", "sample_type_config", "x\"y"}

PayloadBytes == {"\r", "-", "a"}

\* payloads of at most MaxPayloadLen free bytes
ShortPayloads ==
  {Concat(bytes) :
     bytes \in UNION {[1 .. n -> PayloadBytes] : n \in 0 .. MaxPayloadLen}}

\* the line that separates two parts when os.urandom returns 0xaa bytes,
\* alone, followed by CRLF and followed by "--"
DelimiterLines ==
  LET line == CRLF \o "--" \o Hexlify([i \in 1 .. UrandomBytes |-> 170])
  IN {line, line \o CRLF, line \o "--"}

\* payloads: free bytes, then nothing or a delimiter line
Payloads ==
  {start \o rest : start \in ShortPayloads, rest \in {""} \cup DelimiterLines}

\* ordered mappings of distinct field names to payloads (a dict)
Mappings ==
  {<< >>}
    \cup {<< <<n, p>> >> : n \in FieldNames, p \in Payloads}
    \cup {<< <<nn[1], pp[1]>>, <<nn[2], pp[2]>> >> :
             nn \in {nn \in FieldNames \X FieldNames : nn[1] # nn[2]},
             pp \in Payloads \X Payloads}

NotPacked == [content_type |-> "", body |-> ""]

\* ------------------------------------------------- patch_ddtrace_to_pyroscope
\* max_retry_delay: int = 3
DefaultMaxRetryDelay == 3

\* PyroscopePprofHTTPExporter(service_name=..., token=..., endpoint=...)
PyroscopeExporter(service, tok, ep) ==
  [class |-> "PyroscopePprofHTTPExporter", service_name |-> service,
   token |-> tok, endpoint |-> ep, max_retry_delay |-> DefaultMaxRetryDelay]

\* what _ProfilerInstance._build_default_exporters returns before any patch:
\* the framework's own exporter
FrameworkExporters ==
  << [class |-> "PprofHTTPExporter", service_name |-> "", token |-> "",
      endpoint |-> "", max_retry_delay |-> 0] >>

\* the installer adding its exporter to the list the profiler already had
PatchDdtraceToPyroscope_Appending(exporters, service, tok, ep) ==
  Append(exporters, PyroscopeExporter(service, tok, ep))

\* _ProfilerInstance._build_default_exporters = _build_default_exporters:
\* from now on a request for the default exporters returns this list,
\* whatever it returned before
PatchDdtraceToPyroscope(exporters, service, tok, ep) ==
  << PyroscopeExporter(service, tok, ep) >>

\* if not enable_memory_profiling:
\*     os.environ["DD_PROFILING_MEMORY_ENABLED"] = "False"
PatchMemoryEnv(env, enable_memory_profiling) ==
  IF ~enable_memory_profiling THEN "False" ELSE env

\* -------------------------------------------- DatadogProfilingService.start
\* start with the profiler created and started before the patch
StartSteps_ProfilerFirst(enabled) ==
  IF ~enabled THEN << >> ELSE <<"Profiler", "prof.start", "patch">>

\* the statements start runs, in order: none when profiling is disabled
StartSteps(enabled) ==
  IF ~enabled THEN << >> ELSE <<"patch", "Profiler", "prof.start">>

\* ProfilingConfig
Configs ==
  [enabled : BOOLEAN, token : Tokens, service_name : ServiceNames,
   endpoint : Endpoints, enable_memory_profiling : BOOLEAN]

NoProfiler == [exporters |-> << >>, memory |-> FALSE, started |-> FALSE]

NoRequest == [body |-> "", headers |-> << >>, params |-> << >>]

NotSent ==
  [method |-> "", url |-> "", body |-> "", headers |-> << >>, conn |-> 0]

NoResult == << >>

\* exceptions compression or packaging may raise before any upload
EncodeErrors == {"OSError"}

\* the compression and packaging of lines 114-132 run inside the retried
\* callable, so that their I/O error goes through the retry policy
EncodeFailure_Retried(exc) ==
  [pc |-> "sleep", raised |-> NotRaised]

\* an exception of lines 114-132 is raised outside self._retry_upload: it
\* leaves export at once
EncodeFailure(exc) ==
  [pc |-> "raised",
   raised |-> [type |-> exc,
               inner |-> [type |-> exc, reason |-> "", status |-> 0],
               attempt_number |-> 0]]

\* a retry state kept on the exporter and carried into the next call
NewRetryCallState_Kept(old) ==
  IF old.attempt_number = 0 THEN [attempt_number |-> 1, elapsed |-> 0]
  ELSE old

\* Retrying.__call__ builds a new RetryCallState for every call of
\* self._retry_upload: attempt_number 1, start_time now
NewRetryCallState(old) == [attempt_number |-> 1, elapsed |-> 0]

VARIABLES
  token,            \* self.token
  max_retry_delay,  \* self.max_retry_delay, in ticks
  pc,               \* "idle", "attempt", "sleep", "returned", "raised"
  headers,          \* headers assembled by the current export call
  attempt_number,   \* retry_state.attempt_number
  elapsed,          \* clock now - retry_state.start_time, in ticks
  outcome,          \* retry_state.outcome of the last attempt made
  next_sleep,       \* the DoSleep value iter returned
  history,          \* the attempts of this call: response, begin and end time
  delays,           \* the backoff delays drawn in this call
  slept,            \* backoff sleeps performed in this call
  raised,           \* the exception export raised to its caller
  encode_error,     \* the exception compression or packaging raised, if any
  service_name,     \* self.service_name
  endpoint,         \* self.endpoint
  profile,          \* the profile the serialization step returns
  libs,             \* the libraries the serialization step returns
  interval,         \* <<start_time_ns, end_time_ns>> passed to export
  urandom,          \* the bytes os.urandom returns
  request,          \* body, headers, params handed to self._retry_upload,
                    \* locals of export: gone when it returns or raises
  opened,           \* connections obtained in this call
  sent,             \* what the last attempt sent, and on which connection
  result,           \* what export returned
  fields,           \* the mapping a caller hands to _encode_multipart_formdata
  packed,           \* what _encode_multipart_formdata returned for it
  config,           \* DatadogProfilingService.config
  memory_env,       \* os.environ["DD_PROFILING_MEMORY_ENABLED"], or "unset"
  default_exporters,\* what _ProfilerInstance._build_default_exporters returns
  profiler,         \* the Profiler start created, if any
  start_pc,         \* where start is: "idle", "running" or "returned"
  todo              \* the statements of start still to run

vars == <<token, max_retry_delay, pc, headers, attempt_number, elapsed,
          outcome, next_sleep, history, delays, slept, raised, encode_error,
          service_name, endpoint, profile, libs, interval, urandom,
          request, opened, sent, result, fields, packed,
          config, memory_env, default_exporters, profiler, start_pc, todo>>

\* the profiling service and the host profiler
service == <<config, memory_env, default_exporters, profiler, start_pc, todo>>

\* the exporter's configuration and the arguments the host calls it with
inputs == <<token, max_retry_delay, service_name, endpoint, profile, libs,
            interval, urandom, fields>>

\* a new exporter, before its first export call
InitExporter ==
  /\ pc = "idle"
  /\ headers = << >>
  /\ attempt_number = 0
  /\ elapsed = 0
  /\ outcome = NoOutcome
  /\ next_sleep = 0
  /\ history = << >>
  /\ delays = << >>
  /\ slept = 0
  /\ raised = NotRaised
  /\ encode_error = "None"
  /\ request = NoRequest
  /\ opened = 0
  /\ sent = NotSent
  /\ result = NoResult
  /\ libs = "libs"
  /\ packed = NotPacked

\* the process before start is called
InitService ==
  /\ memory_env = "unset"
  /\ default_exporters = FrameworkExporters
  /\ profiler = NoProfiler
  /\ start_pc = "idle"
  /\ todo = << >>

\* one profiling configuration
OneConfig ==
  [enabled |-> TRUE, token |-> "tok123", service_name |-> "helloworld",
   endpoint |-> "http://pyroscope:4040/ingest",
   enable_memory_profiling |-> TRUE]

\* every token and retry budget, one request
Init ==
  /\ token \in Tokens
  /\ max_retry_delay \in Budgets
  /\ service_name = "helloworld"
  /\ endpoint = "http://pyroscope:4040/ingest"
  /\ profile = "pprof"
  /\ interval = <<1000, 2000>>
  /\ urandom \in {[i \in 1 .. UrandomBytes |-> 170]}
  /\ fields = << >>
  /\ InitExporter
  /\ config = OneConfig
  /\ InitService

\* every request, one token and a budget of one backoff multiplier
InitRequest ==
  /\ token = "tok123"
  /\ max_retry_delay = Multiplier
  /\ service_name \in ServiceNames
  /\ endpoint \in Endpoints
  /\ profile \in Profiles
  /\ interval \in Intervals
  /\ urandom \in Randoms
  /\ fields = << >>
  /\ InitExporter
  /\ config = OneConfig
  /\ InitService

\* every profiling configuration, one exporter
InitStart ==
  /\ token = "tok123"
  /\ max_retry_delay = Multiplier
  /\ service_name = "helloworld"
  /\ endpoint = "http://pyroscope:4040/ingest"
  /\ profile = "pprof"
  /\ interval = <<1000, 2000>>
  /\ urandom \in {[i \in 1 .. UrandomBytes |-> 170]}
  /\ fields = << >>
  /\ InitExporter
  /\ config \in Configs
  /\ InitService

\* every mapping handed to the packager, one export request
InitPack ==
  /\ token = "tok123"
  /\ max_retry_delay = Multiplier
  /\ service_name = "helloworld"
  /\ endpoint = "http://pyroscope:4040/ingest"
  /\ profile = "pprof"
  /\ interval = <<1000, 2000>>
  /\ urandom \in Randoms
  /\ fields \in Mappings
  /\ InitExporter
  /\ config = OneConfig
  /\ InitService

\* export() up to the call of self._retry_upload, on a new exporter or after
\* an earlier call returned or raised: the request is assembled and
\* Retrying.__call__ creates a fresh RetryCallState
Export ==
  /\ pc \in {"idle", "returned", "raised"}
  /\ \E failure \in {"None"} \cup EncodeErrors :
       /\ encode_error' = failure
       /\ IF failure # "None"
            THEN /\ pc' = EncodeFailure(failure).pc
                 /\ raised' = EncodeFailure(failure).raised
                 /\ headers' = << >>
                 /\ request' = NoRequest
                 /\ attempt_number' = 0
                 /\ elapsed' = 0
          ELSE LET fresh == NewRetryCallState([attempt_number |-> attempt_number,
                                               elapsed |-> elapsed])
               IN /\ pc' = "attempt"
                  /\ raised' = NotRaised
                  /\ request' = PreparedRequests[profile, urandom, token,
                                                 service_name, interval]
                  /\ headers' = request'.headers
                  /\ attempt_number' = fresh.attempt_number
                  /\ elapsed' = fresh.elapsed
  /\ outcome' = NoOutcome
  /\ next_sleep' = 0
  /\ history' = << >>
  /\ delays' = << >>
  /\ slept' = 0
  /\ opened' = 0
  /\ sent' = NotSent
  /\ result' = NoResult
  /\ UNCHANGED <<inputs, packed, service>>

\* One DoAttempt of Retrying.__call__: _upload_once runs against the
\* transport, its outcome is recorded, and iter decides what comes next.
AttemptAnswered(responses, times) ==
  /\ pc = "attempt"
  /\ sent' = UploadRequest(endpoint, request.body, request.headers,
                           request.params, opened)
  /\ opened' = opened + 1
  /\ \E resp \in responses, took \in times :
       LET ended == elapsed + took
           exc == UploadOnce(resp)
           fut == [attempt_number |-> attempt_number,
                   failed |-> exc # NoException,
                   exception |-> exc]
       IN
       /\ elapsed' = ended
       /\ outcome' = fut
       /\ history' = Append(history,
                            [resp |-> resp, begun |-> elapsed, ended |-> ended])
       /\ IF ~WantsRetry(fut)
            THEN /\ raised' = (IF fut.failed THEN Reraise(fut) ELSE NotRaised)
                 /\ pc' = (IF raised' = NotRaised THEN "returned" ELSE "raised")
                 /\ result' = (IF raised' = NotRaised
                                 THEN ExportReturn(profile, libs) ELSE NoResult)
                 /\ request' = NoRequest
                 /\ UNCHANGED <<next_sleep, delays>>
          ELSE IF StopAfterDelay(ended, max_retry_delay)
            THEN /\ raised' = RetryErrorCls(fut)
                 /\ pc' = (IF raised' = NotRaised THEN "returned" ELSE "raised")
                 /\ result' = (IF raised' = NotRaised
                                 THEN ExportReturn(profile, libs) ELSE NoResult)
                 /\ request' = NoRequest
                 /\ UNCHANGED <<next_sleep, delays>>
          ELSE /\ \E sleep \in WaitRandomExponential(attempt_number) :
                    /\ next_sleep' = sleep
                    /\ delays' = Append(delays, sleep)
               /\ pc' = "sleep"
               /\ UNCHANGED <<raised, result, request>>
  /\ UNCHANGED <<inputs, headers, attempt_number, slept, encode_error,
                 packed, service>>

\* an attempt answered in any way, taking one of the durations times
AttemptTaking(times) == AttemptAnswered(Responses, times)

\* an attempt of any duration, an immediate answer included
Attempt == AttemptTaking(AttemptTimes)

\* an attempt during which the wall clock advances
AttemptAdvancing == AttemptTaking(AttemptTimes \ {0})

\* One DoSleep of Retrying.__call__: prepare_for_next_attempt, then sleep
Sleep ==
  /\ pc = "sleep"
  /\ attempt_number < MaxAttempts
  /\ attempt_number' = attempt_number + 1
  /\ outcome' = NoOutcome
  /\ elapsed' = elapsed + next_sleep
  /\ slept' = slept + 1
  /\ pc' = "attempt"
  /\ UNCHANGED <<inputs, headers, next_sleep, history, delays, raised,
                 encode_error, request, opened, sent, result, packed,
                 service>>

Next == Export \/ Attempt \/ Sleep

Spec == Init /\ [][Next]_vars

\* every attempt completes and takes time, and the calling thread keeps
\* running: the loop of Retrying.__call__ is never suspended for ever
NextLive == Export \/ AttemptAdvancing \/ Sleep

SpecLive ==
  Init /\ [][NextLive]_vars /\ WF_vars(AttemptAdvancing) /\ WF_vars(Sleep)

\* _encode_multipart_formdata called on the mapping fields
Pack ==
  /\ packed = NotPacked
  /\ packed' = EncodeMultipartFormdata(fields, urandom)
  /\ UNCHANGED <<inputs, pc, headers, attempt_number, elapsed, outcome,
                 next_sleep, history, delays, slept, raised, encode_error,
                 request, opened, sent, result, service>>

NextPack == Pack \/ Export

\* the packager on every mapping, and export up to its first attempt
SpecPack == InitPack /\ [][NextPack]_vars

\* the exporter, untouched by the steps of start
exporter == <<inputs, pc, headers, attempt_number, elapsed, outcome,
              next_sleep, history, delays, slept, raised, encode_error,
              request, opened, sent, result, packed>>

\* start is called: if not self.config.enabled: return
StartCall ==
  /\ start_pc \in {"idle", "returned"}
  /\ todo' = StartSteps(config.enabled)
  /\ start_pc' = (IF todo' = << >> THEN "returned" ELSE "running")
  /\ UNCHANGED <<config, memory_env, default_exporters, profiler, exporter>>

\* one statement of start has run
StepDone ==
  /\ todo' = Tail(todo)
  /\ start_pc' = (IF todo' = << >> THEN "returned" ELSE "running")

\* patch_ddtrace_to_pyroscope(service_name, token, endpoint,
\* enable_memory_profiling) with the values of the configuration
StartPatch ==
  /\ start_pc = "running"
  /\ Head(todo) = "patch"
  /\ memory_env' = PatchMemoryEnv(memory_env, config.enable_memory_profiling)
  /\ default_exporters' =
       PatchDdtraceToPyroscope(default_exporters, config.service_name,
                               config.token, config.endpoint)
  /\ StepDone
  /\ UNCHANGED <<config, profiler, exporter>>

\* prof = Profiler(): the new profiler asks for its default exporters and
\* reads the memory switch
StartProfiler ==
  /\ start_pc = "running"
  /\ Head(todo) = "Profiler"
  /\ profiler' = [exporters |-> default_exporters,
                  memory |-> memory_env # "False", started |-> FALSE]
  /\ StepDone
  /\ UNCHANGED <<config, memory_env, default_exporters, exporter>>

\* prof.start()
StartProfilerStart ==
  /\ start_pc = "running"
  /\ Head(todo) = "prof.start"
  /\ profiler' = [profiler EXCEPT !.started = TRUE]
  /\ StepDone
  /\ UNCHANGED <<config, memory_env, default_exporters, exporter>>

NextStart == StartCall \/ StartPatch \/ StartProfiler \/ StartProfilerStart

\* DatadogProfilingService.start, called any number of times, under every
\* configuration
SpecStart == InitStart /\ [][NextStart]_vars

\* a success, a terminal status, a retryable status, a transport failure
SomeResponses ==
  {r \in Responses :
     \/ r.kind = "response" /\ r.status \in {200, 404, 503}
     \/ r.kind = "OSError"}

\* an attempt the server answers at once, in one of these four ways
AttemptAtOnce == AttemptAnswered(SomeResponses, {0})

NextRequest == Export \/ AttemptAtOnce \/ Sleep

\* the same exporter over every request, each attempt answered at once
SpecRequest == InitRequest /\ [][NextRequest]_vars

\* ------------------------------------------------------------- properties
Done == pc \in {"returned", "raised"}

Attempts == Len(history)

LastResp == history[Len(history)].resp

IsStatus(resp, lo, hi) ==
  resp.kind = "response" /\ lo <= resp.status /\ resp.status <= hi

ApiKeyReason == "Server returned 400, check your API key."

EndpointPathReason == "Server returned 404, check your endpoint path."

\* C1: the outcome of the attempt that received a status is Success for
\* 200-299 (export returns, nothing raised), the retry signal TryAgain for
\* 500-599, a terminal ExportError telling to check the API key for 400 and
\* a terminal ExportError telling to check the endpoint path for 404.
C1_StatusClassification ==
  (Attempts >= 1 /\ outcome.attempt_number = Attempts) =>
    /\ IsStatus(LastResp, 200, 299) =>
         (~outcome.failed /\ pc = "returned" /\ raised = NotRaised)
    /\ IsStatus(LastResp, 500, 599) =>
         /\ outcome.failed
         /\ outcome.exception.type = "TryAgain"
         /\ pc = "sleep" \/ (pc = "raised" /\ raised.type = "UploadFailed")
    /\ IsStatus(LastResp, 400, 400) =>
         /\ outcome.exception.type = "ExportError"
         /\ outcome.exception.reason = ApiKeyReason
         /\ pc = "raised" /\ raised.type = "ExportError"
    /\ IsStatus(LastResp, 404, 404) =>
         /\ outcome.exception.type = "ExportError"
         /\ outcome.exception.reason = EndpointPathReason
         /\ pc = "raised" /\ raised.type = "ExportError"

\* a retried 500 followed by a 404 that ends the call with the path reason
C1_Witness ==
  /\ Attempts = 2
  /\ IsStatus(history[1].resp, 500, 500)
  /\ IsStatus(history[2].resp, 404, 404)
  /\ pc = "raised"
  /\ raised.inner.reason = EndpointPathReason

\* C2: every status outside 200-299 and 500-599 is a TerminalFailure and is
\* never retried: the attempt that receives it is the last attempt of the
\* export call, which raises the terminal ExportError.
C2_OtherStatusTerminal ==
  \A i \in 1 .. Attempts :
    ( /\ history[i].resp.kind = "response"
      /\ ~IsStatus(history[i].resp, 200, 299)
      /\ ~IsStatus(history[i].resp, 500, 599) ) =>
        /\ i = Attempts
        /\ pc = "raised"
        /\ raised.type = "ExportError"

\* C3: a first attempt answered 400 or 404 ends the call at once: one
\* attempt, no backoff delay drawn or slept, and the ExportError raised
\* carries the API-key reason (400) or the endpoint-path reason (404).
C3_TerminalOnFirstAttempt ==
  (Attempts >= 1 /\ history[1].resp.kind = "response"
     /\ history[1].resp.status \in {400, 404}) =>
    /\ pc = "raised"
    /\ Attempts = 1
    /\ attempt_number = 1
    /\ slept = 0
    /\ delays = << >>
    /\ raised.type = "ExportError"
    /\ raised.attempt_number = 1
    /\ raised.inner.reason =
         (IF history[1].resp.status = 400 THEN ApiKeyReason
          ELSE EndpointPathReason)

\* an export call with budget left for retries, ended by a 400 at once
C3_Witness ==
  /\ pc = "raised"
  /\ max_retry_delay = MaxBudget
  /\ elapsed = 0
  /\ Attempts = 1
  /\ IsStatus(history[1].resp, 400, 400)
  /\ raised.inner.reason = ApiKeyReason

\* the transport of C4: 503 on the first two attempts, 200 on the third
Script503 == <<503, 503, 200>>

FollowsScript503 ==
  /\ Attempts >= 1
  /\ Attempts <= Len(Script503)
  /\ \A i \in 1 .. Attempts : IsStatus(history[i].resp, Script503[i], Script503[i])

\* the values the first two backoff delays take in this call: the ones
\* drawn so far, completed by any value the wait could still draw
TwoBackoffDelays ==
  {d \in WaitRandomExponential(1) \X WaitRandomExponential(2) :
     \A i \in 1 .. 2 : i <= Len(delays) => d[i] = delays[i]}

\* C4 as claimed: against the 503, 503, 200 transport, a budget at least as
\* long as the two backoff delays, whatever value a delay not yet drawn
\* takes, makes the call return after exactly 3 attempts.
C4_Original ==
  ( /\ Done
    /\ FollowsScript503
    /\ \A d \in TwoBackoffDelays : max_retry_delay >= d[1] + d[2] ) =>
      (pc = "returned" /\ Attempts = 3 /\ raised = NotRaised)

\* C4 amended: against the 503, 503, 200 transport, when each of the first
\* two attempts ends before the budget has elapsed since the start of the
\* call (attempt durations and first backoff delay included), the call
\* returns after exactly 3 attempts and raises nothing.
C4_SucceedsOnThirdAttempt ==
  ( /\ Done
    /\ FollowsScript503
    /\ \A i \in 1 .. Attempts : i <= 2 => history[i].ended < max_retry_delay ) =>
      (pc = "returned" /\ Attempts = 3 /\ slept = 2 /\ raised = NotRaised)

\* the call returned on the third attempt after a backoff that took time
C4_Witness ==
  /\ pc = "returned"
  /\ FollowsScript503
  /\ Attempts = 3
  /\ delays[1] > 0
  /\ history[2].ended < max_retry_delay

\* C5: against a transport that always answers 500, with a budget of 0, or a
\* positive budget shorter than the first backoff delay, the call fails with
\* the retryable failure as its final failure after exactly 1 attempt.
C5_OneAttemptOnShortBudget ==
  ( /\ Done
    /\ Attempts >= 1
    /\ \A i \in 1 .. Attempts : IsStatus(history[i].resp, 500, 500)
    /\ \/ max_retry_delay = 0
       \/ /\ max_retry_delay > 0
          /\ Len(delays) >= 1
          /\ max_retry_delay < delays[1] ) =>
      /\ pc = "raised"
      /\ raised.type = "UploadFailed"
      /\ raised.inner.type = "TryAgain"
      /\ Attempts = 1

\* C6: no attempt other than the first begins once the time elapsed since
\* the start of the call exceeds the retry budget, a backoff sleep that
\* runs past the budget included.
C6_NoAttemptPastBudget ==
  /\ \A i \in 2 .. Attempts : history[i].begun <= max_retry_delay
  /\ (pc = "attempt" /\ attempt_number > 1) => elapsed <= max_retry_delay

\* C7: when the call stops on budget exhaustion, the UploadFailed raised
\* wraps the failure of the last attempt made: the retry signal of its 5xx
\* status or its transport exception.
C7_LastFailureSurfaced ==
  (pc = "raised" /\ Attempts >= 1 /\ raised.type # "ExportError") =>
    /\ raised.type = "UploadFailed"
    /\ raised.attempt_number = Attempts
    /\ LastResp.kind \in TransportErrors =>
         raised.inner.type = LastResp.kind
    /\ LastResp.kind = "response" =>
         /\ raised.inner.type = "TryAgain"
         /\ raised.inner.status = LastResp.status
         /\ LastResp.status >= 500

\* budget exhausted on a second attempt that failed differently from the first
C7_Witness ==
  /\ pc = "raised"
  /\ raised.type = "UploadFailed"
  /\ Attempts = 2
  /\ history[1].resp.kind = "OSError"
  /\ IsStatus(history[2].resp, 503, 503)
  /\ raised.inner.status = 503

\* C8: an attempt other than the first follows only a transport failure or
\* a 5xx response; none follows a Success or a TerminalFailure.
C8_RetryOnlyAfterRetryable ==
  \A i \in 2 .. Attempts :
    \/ history[i - 1].resp.kind \in TransportErrors
    \/ IsStatus(history[i - 1].resp, 500, 599)

\* C9: the assembled request has no Authorization header when no token is
\* configured, and exactly "Bearer {token}" when one is.
C9_AuthorizationHeader ==
  (pc \in {"attempt", "sleep"} \/ Attempts >= 1) =>
    /\ token = "" => "Authorization" \notin DOMAIN headers
    /\ token # "" =>
         /\ "Authorization" \in DOMAIN headers
         /\ headers["Authorization"] = "Bearer " \o token

\* C10: export returns normally exactly when its last attempt received a
\* 2xx status; a call that ends any other way raises to the caller.
C10_ReturnsIffLast2xx ==
  Done =>
    /\ pc = "returned" <=> (Attempts >= 1 /\ IsStatus(LastResp, 200, 299))
    /\ pc = "returned" => raised = NotRaised
    /\ pc = "raised" => raised # NotRaised
    /\ (pc = "raised" /\ Attempts >= 1) =>
         raised.type \in {"ExportError", "UploadFailed"}

\* a transport error and a 5xx were retried and the third attempt got a 2xx
C10_Witness ==
  /\ pc = "returned"
  /\ Attempts = 3
  /\ history[1].resp.kind = "HTTPException"
  /\ IsStatus(history[2].resp, 500, 500)
  /\ IsStatus(history[3].resp, 299, 299)

\* C15: an I/O error raised while compressing or packaging is not retried:
\* export raises it at once, with no HTTP attempt and no backoff sleep in
\* that call.
C15_EncodeFailureNotRetried ==
  (encode_error # "None") =>
    /\ pc = "raised"
    /\ raised.type = encode_error
    /\ Attempts = 0
    /\ attempt_number = 0
    /\ slept = 0
    /\ delays = << >>

\* packaging failed with an OSError on an exporter that has budget to retry
C15_Witness ==
  /\ encode_error = "OSError"
  /\ RetryIfExceptionType([type |-> encode_error])
  /\ pc = "raised"
  /\ max_retry_delay = MaxBudget

\* C16: whatever way the earlier call ended, the step that begins the retry
\* loop of the next call starts it as a first call starts: attempt count 1,
\* elapsed time 0, no outcome, no attempt or delay on record, budget
\* unchanged.
C16_FreshRetryState ==
  [][ (pc \in {"idle", "returned", "raised"} /\ pc' = "attempt") =>
        /\ attempt_number' = 1
        /\ elapsed' = 0
        /\ outcome' = NoOutcome
        /\ history' = << >>
        /\ delays' = << >>
        /\ slept' = 0
        /\ raised' = NotRaised
        /\ max_retry_delay' = max_retry_delay ]_vars

\* a call that used up its budget over several attempts, with the next call
\* able to begin
C16_Witness ==
  /\ pc = "raised"
  /\ raised.type = "UploadFailed"
  /\ attempt_number > 1
  /\ elapsed > 0
  /\ ENABLED Export

\* C19: when every attempt completes and takes time, a call that has begun
\* its retry loop always ends, returning or raising.
C19_ExportTerminates ==
  (pc \in {"attempt", "sleep"}) ~> Done

\* a transport that only fails: the call ended on budget exhaustion after
\* two attempts
C19_Witness ==
  /\ pc = "raised"
  /\ raised.type = "UploadFailed"
  /\ Attempts = 2
  /\ \A i \in 1 .. Attempts : history[i].resp.kind \in TransportErrors

\* ------------------------------------------------------- reading a URL
\* the position of the first character c of str, 0 when there is none
IndexOfChar(str, c) ==
  IF \E i \in 1 .. Len(str) : SubSeq(str, i, i) = c
    THEN CHOOSE i \in 1 .. Len(str) :
           /\ SubSeq(str, i, i) = c
           /\ \A j \in 1 .. i - 1 : SubSeq(str, j, j) # c
  ELSE 0

\* the pieces of str between the separators c
RECURSIVE Split(_, _)
Split(str, c) ==
  LET i == IndexOfChar(str, c) IN
  IF i = 0 THEN <<str>>
  ELSE <<SubSeq(str, 1, i - 1)>> \o Split(SubSeq(str, i + 1, Len(str)), c)

\* the character a percent escape stands for
PercentDecoded(hex) ==
  IF hex = "26" THEN "&"
  ELSE IF hex = "3D" THEN "="
  ELSE IF hex = "2B" THEN "+"
  ELSE IF hex = "25" THEN "%"
  ELSE IF hex = "3F" THEN "?"
  ELSE "<?>"

\* a query component decoded: "+" is a space, %XX a character
RECURSIVE UnquotePlus(_)
UnquotePlus(str) ==
  IF str = "" THEN ""
  ELSE IF Head(str) = "+" THEN " " \o UnquotePlus(Tail(str))
  ELSE IF Head(str) = "%"
    THEN PercentDecoded(SubSeq(str, 2, 3)) \o UnquotePlus(SubSeq(str, 4, Len(str)))
  ELSE Head(str) \o UnquotePlus(Tail(str))

\* the parameters of a query string, in order, decoded
ParseQs(query) ==
  LET pairs == Split(query, "&") IN
  [i \in 1 .. Len(pairs) |->
     LET kv == Split(pairs[i], "=") IN
     IF Len(kv) = 2 THEN <<UnquotePlus(kv[1]), UnquotePlus(kv[2])>>
     ELSE <<"<?>", pairs[i]>>]

\* C11: when export returns, it returns the pair (profile, libraries) it got
\* from the serialization step, unchanged, and only after an upload attempt
\* was answered with a 2xx status; an export that has not returned has
\* returned nothing.
C11_ReturnsProfileAfterUpload ==
  /\ pc = "returned" =>
       /\ result = <<profile, libs>>
       /\ Attempts >= 1
       /\ IsStatus(LastResp, 200, 299)
       /\ sent.method = "POST"
       /\ sent.conn = Attempts
  /\ pc # "returned" => result = NoResult

C11_Witness ==
  /\ pc = "returned"
  /\ Attempts = 2
  /\ profile = "pprof"
  /\ result = <<"pprof", "libs">>

\* C14: every attempt of an export call is a POST whose target is the
\* configured endpoint, "?", and the query parameters name = service name,
\* spyName = ddtrace, from = start_time_ns, until = end_time_ns, in that
\* order.
C14_RequestTarget ==
  sent # NotSent =>
    /\ sent.method = "POST"
    /\ SubSeq(sent.url, 1, Len(endpoint) + 1) = endpoint \o "?"
    /\ ParseQs(SubSeq(sent.url, Len(endpoint) + 2, Len(sent.url)))
         = << <<"name", service_name>>, <<"spyName", "ddtrace">>,
              <<"from", ToString(interval[1])>>,
              <<"until", ToString(interval[2])>> >>

C14_Witness ==
  /\ opened = 2
  /\ service_name = "a&b=c"
  /\ interval = <<2000, 3000>>
  /\ sent.url = "http://bk/pyroscope?name=a%26b%3Dc&spyName=ddtrace&from=2000&until=3000"

\* C20: body, headers and params are made once per export call and stay as
\* they are until the call ends; every attempt sends that body, that
\* Content-Type header and the same URL as the attempt before it, on a
\* connection no earlier attempt of the call used.
C20_SameRequestEveryAttempt ==
  [][/\ (pc \in {"attempt", "sleep"} /\ pc' \in {"attempt", "sleep"})
          => request' = request
     /\ (pc = "attempt" /\ pc' # "attempt") =>
          /\ sent'.body = request.body
          /\ sent'.headers = request.headers
          /\ sent'.conn > sent.conn
          /\ sent # NotSent =>
               /\ sent'.body = sent.body
               /\ sent'.headers["Content-Type"] = sent.headers["Content-Type"]
               /\ sent'.url = sent.url]_vars

C20_Witness ==
  /\ Attempts = 3
  /\ sent.conn = 3
  /\ urandom = [i \in 1 .. UrandomBytes |-> 0]
  /\ sent.body # ""

\* ------------------------------------------------ reading a multipart body
ContentTypePrefix == "multipart/form-data; boundary="

\* the boundary parameter of a content-type value
BoundaryOf(content_type) ==
  SubSeq(content_type, Len(ContentTypePrefix) + 1, Len(content_type))

\* str from position i to its end
From(str, i) == SubSeq(str, i, Len(str))

StartsWith(str, prefix) == SubSeq(str, 1, Len(prefix)) = prefix

\* the first position of pat in str, 0 when there is none
IndexOfStr(str, pat) ==
  LET at == {i \in 1 .. Len(str) - Len(pat) + 1 :
               SubSeq(str, i, i + Len(pat) - 1) = pat}
  IN IF at = {} THEN 0 ELSE CHOOSE i \in at : \A j \in at : i <= j

\* the framing of the packager's contract: rest is the parts of flds in
\* order, each a boundary line, the Content-Disposition line naming the
\* field twice, the Content-Type line, an empty line, the payload and CRLF,
\* and then the closing boundary and nothing more
RECURSIVE Framed(_, _, _)
Framed(rest, boundary, flds) ==
  IF flds = << >> THEN rest = "--" \o boundary \o "--"
  ELSE LET name == flds[1][1]
           part ==
             "--" \o boundary \o "\r\n"
               \o "Content-Disposition: form-data; name=\"" \o name
               \o "\"; filename=\"" \o name \o "\"\r\n"
               \o "Content-Type: application/octet-stream\r\n"
               \o "\r\n" \o flds[1][2] \o "\r\n"
       IN /\ StartsWith(rest, part)
          /\ Framed(From(rest, Len(part) + 1), boundary, Tail(flds))

Malformed == [ok |-> FALSE, parts |-> << >>]

\* one part between two boundary lines, read as RFC 7578 has it: header
\* lines up to the first empty line, the field name the quoted string after
\* name=, the payload everything after the empty line
ParsePart(part) ==
  LET blank == IndexOfStr(part, "\r\n\r\n")
      disposition == "Content-Disposition: form-data; name=\""
      named == From(part, Len(disposition) + 1)
      quote == IndexOfStr(named, "\"")
  IN IF blank = 0 \/ ~StartsWith(part, disposition) \/ quote = 0
       THEN Malformed
     ELSE [ok |-> TRUE,
           parts |-> << <<SubSeq(named, 1, quote - 1), From(part, blank + 4)>> >>]

\* the parts after a boundary line, rest being what follows "--boundary":
\* "--" closes the body, CRLF opens a part that runs to the next
\* CRLF "--boundary"
RECURSIVE ParseAfterBoundary(_, _)
ParseAfterBoundary(rest, boundary) ==
  IF StartsWith(rest, "--") THEN [ok |-> TRUE, parts |-> << >>]
  ELSE IF ~StartsWith(rest, "\r\n") THEN Malformed
  ELSE LET delimiter == "\r\n--" \o boundary
           text == From(rest, 3)
           next == IndexOfStr(text, delimiter)
           part == ParsePart(SubSeq(text, 1, next - 1))
           others == ParseAfterBoundary(From(text, next + Len(delimiter)), boundary)
       IN IF next = 0 \/ ~part.ok \/ ~others.ok THEN Malformed
          ELSE [ok |-> TRUE, parts |-> part.parts \o others.parts]

\* a multipart body read with the boundary of its content-type
ParseMultipart(body, boundary) ==
  IF StartsWith(body, "--" \o boundary)
    THEN ParseAfterBoundary(From(body, Len(boundary) + 3), boundary)
  ELSE Malformed

\* the field names and payloads are such that framing cannot be mistaken:
\* no name holds a double quote, CR or LF, and no payload holds CRLF "--"
\* followed by the boundary
Unambiguous(flds, boundary) ==
  \A i \in 1 .. Len(flds) :
    /\ IndexOfStr(flds[i][1], "\"") = 0
    /\ IndexOfStr(flds[i][1], "\r") = 0
    /\ IndexOfStr(flds[i][1], "\n") = 0
    /\ IndexOfStr(flds[i][2], "\r\n--" \o boundary) = 0

\* C12: what the packager returns for a mapping is the content-type prefix
\* with a boundary, and a body that is the parts of the mapping in order,
\* framed as the contract says with that boundary, closed by "--boundary--"
\* with nothing after it; the body export hands to the upload holds the
\* fields profile and sample_type_config, in this order, and no other.
C12_PartsFramedInOrder ==
  /\ packed # NotPacked =>
       /\ StartsWith(packed.content_type, ContentTypePrefix)
       /\ Framed(packed.body, BoundaryOf(packed.content_type), fields)
  /\ pc = "attempt" =>
       /\ StartsWith(request.headers["Content-Type"], ContentTypePrefix)
       /\ Framed(request.body, BoundaryOf(request.headers["Content-Type"]),
                 << <<"profile", "<gzip:" \o profile \o ">">>,
                    <<"sample_type_config",
                      "{cpu-time,wall-time,alloc-space,heap-space}">> >>)

C12_Witness ==
  /\ packed # NotPacked
  /\ Len(fields) = 2
  /\ fields[1][1] = "x\"y"
  /\ fields[2][2] = ""
  /\ pc = "attempt"

ConfiguredExporters ==
  LET only == default_exporters[1] IN
  /\ Len(default_exporters) = 1
  /\ only.class = "PyroscopePprofHTTPExporter"
  /\ only.service_name = config.service_name
  /\ only.token = config.token
  /\ only.endpoint = config.endpoint

Installed == default_exporters # FrameworkExporters

\* C17: once the installer has run, a request for the default exporters
\* yields exactly one exporter, configured with the installer's service
\* name, token and endpoint, and running the installer again with the same
\* arguments leaves that list as it was.
C17_SingleExporterIdempotent ==
  [][/\ Installed' => ConfiguredExporters'
     /\ Installed => default_exporters' = default_exporters]_vars

C17_Witness ==
  /\ Installed
  /\ start_pc = "running"
  /\ Head(todo) = "Profiler"
  /\ profiler.started
  /\ config.service_name = "a&b=c"
  /\ config.token = ""

\* C18: a step of start that creates or starts the host profiler is taken
\* with the override already installed, so the profiler holds the
\* configured exporter and never the framework's; under a configuration
\* with profiling disabled start leaves the exporters, the environment and
\* the profiler as they were.
C18_OverrideBeforeProfiler ==
  [][/\ profiler' # profiler =>
          /\ Installed
          /\ ConfiguredExporters
          /\ profiler'.exporters = default_exporters
     /\ ~config.enabled =>
          /\ default_exporters' = FrameworkExporters
          /\ profiler' = NoProfiler
          /\ memory_env' = "unset"]_vars

C18_Witness ==
  /\ start_pc = "returned"
  /\ profiler.started
  /\ Len(profiler.exporters) = 1
  /\ profiler.exporters[1].class = "PyroscopePprofHTTPExporter"
  /\ ~profiler.memory

====
